---------------------------- MODULE Spec2Model ----------------------------
(* A model of the PROS serial driver, src/src/system/dev/ser_driver.c:    *)
(* the stream policy registry, the write path (ser_write_r and            *)
(* ser_output_write), the output queue and its flush (ser_output_flush),  *)
(* the control interface (serctl) and the open path (ser_open_r).         *)
(*                                                                        *)
(* Writer tasks are preemptible: a write call is split at its suspension  *)
(* points (the mutex_take, every queue_append, the mutex_give).  The flush*)
(* runs in the system daemon and takes no lock, so it is split at every   *)
(* access to the queue.  serctl and ser_open_r touch the shared state in  *)
(* one place each and are single steps.                                  *)
EXTENDS Integers, Sequences, FiniteSets, TLC

(***************************************************************************)
(* Bounds of the model.                                                    *)
(***************************************************************************)
\* Length of the output queue.  The source sets 2047 (ser_driver.c:27) and
\* calls it a tuning value; the model keeps the queue a ring of this length.
VEX_SERIAL_BUFFER_SIZE == 3
\* Number of driver entry points invoked in one behaviour (write calls,
\* flushes, control verbs and opens together).
MaxOps == 3

\* The writer tasks.
Tasks == {1, 2}
\* Paths handed to ser_open_r (character codes): "", "/serr", "kdbg", "ser"
\* and "/toolong".
OpenPaths ==
  { <<>>, <<47, 115, 101, 114, 114>>, <<107, 100, 98, 103>>, <<115, 101, 114>>,
    <<47, 116, 111, 111, 108, 111, 110, 103>> }
\* Values an uninitialised byte of a kmalloc'ed ser_file_s_t may hold.
UninitBytes == {0, 114}
\* Values the uninitialised flags word may hold, as far as bit 0 goes.
UninitFlags == {0, 1}
\* Buffer lengths handed to ser_read_r.
ReadLens == {0, 1, 2}
\* Inbound bytes: a newline and a letter.
InBytes == {10, 65}
\* Payloads handed to ser_write_r: with and without a zero byte.
Payloads == {<<7>>, <<0, 9>>}

(***************************************************************************)
(* Program constants.                                                      *)
(***************************************************************************)
STDIN_STREAM_ID  == 1886284147   \* 0x706e6973, 'sinp' little endian
STDOUT_STREAM_ID == 1953853299   \* 0x74756f73, 'sout' little endian
STDERR_STREAM_ID == 1920099699   \* 0x72726573, 'serr' little endian
KDBG_STREAM_ID   == 1734501483   \* 0x6762646b, 'kdbg' little endian

E_NOBLK_WRITE  == 1
E_COBS_ENABLED == 1

STDIN_FILENO  == 0
STDOUT_FILENO == 1
STDERR_FILENO == 2
KDBG_FILENO   == 3

\* errno values (newlib).
EACCES       == 13
EIO          == 5
ENAMETOOLONG == 91
\* serctl's "return -1" and the kernel's "wait forever" timeout are both the
\* word 0xffffffff, written here as the 32-bit two's complement number.
UINT32_MINUS_ONE == -1
TIMEOUT_MAX      == -1

\* The serctl verbs (system/dev/ser.h).
SERCTL_ACTIVATE     == 10
SERCTL_DEACTIVATE   == 11
SERCTL_BLKWRITE     == 12
SERCTL_NOBLKWRITE   == 13
SERCTL_ENABLE_COBS  == 14
SERCTL_DISABLE_COBS == 15
\* Action words that name no verb.
UnknownActions == {99}

guaranteed_delivery_streams == <<STDERR_STREAM_ID>>

\* list_contains(list, size, item) of common/linkedlist, used on the array above.
list_contains(list, item) == \E i \in 1..Len(list) : list[i] = item

(***************************************************************************)
(* ser_file_s_t: the union of stream_id and stream[4] (little endian).     *)
(***************************************************************************)
StreamBytes(id) ==
  << id % 256, (id \div 256) % 256, (id \div 65536) % 256, (id \div 16777216) % 256 >>

StreamId(bytes) ==
  bytes[1] + 256 * bytes[2] + 65536 * bytes[3] + 16777216 * bytes[4]

RESERVED_SER_FILES ==
  << [stream_id |-> STDIN_STREAM_ID,  flags |-> 0],
     [stream_id |-> STDOUT_STREAM_ID, flags |-> 0],
     [stream_id |-> STDERR_STREAM_ID, flags |-> 0],
     [stream_id |-> KDBG_STREAM_ID,   flags |-> 0] >>

\* file.flags & E_NOBLK_WRITE, flags being a one-bit field in the model.
NoBlock(file) == (file.flags % 2) = E_NOBLK_WRITE

(***************************************************************************)
(* common/cobs: consistent overhead byte stuffing of (prefix ++ src).      *)
(***************************************************************************)
RECURSIVE CobsBlocks(_, _)
CobsBlocks(rest, block) ==
  IF rest = <<>> THEN <<Len(block) + 1>> \o block
  ELSE IF Head(rest) = 0
       THEN <<Len(block) + 1>> \o block \o CobsBlocks(Tail(rest), <<>>)
       ELSE IF Len(block) = 253
            THEN <<255>> \o Append(block, Head(rest)) \o CobsBlocks(Tail(rest), <<>>)
            ELSE CobsBlocks(Tail(rest), Append(block, Head(rest)))

cobs_encode(src, prefix) == CobsBlocks(StreamBytes(prefix) \o src, <<>>)

RECURSIVE CobsCount(_, _)
CobsCount(rest, code) ==
  IF rest = <<>> THEN 1
  ELSE IF Head(rest) = 0 \/ code = 254
       THEN 1 + (IF Head(rest) = 0 THEN 0 ELSE 1) + CobsCount(Tail(rest), 1)
       ELSE 1 + CobsCount(Tail(rest), code + 1)

cobs_encode_measure(src, prefix) == CobsCount(StreamBytes(prefix) \o src, 1)

(***************************************************************************)
(* The program's state.                                                    *)
(***************************************************************************)
VARIABLES
  files,                      \* the vfs table: fd -> ser_file_s_t
  enabled_streams_set,        \* set of stream ids
  ser_driver_runtime_config,  \* bit 0: E_COBS_ENABLED
  write_mtx,                  \* 0 when free, else the task holding it
  write_buffer,               \* storage of write_queue, indices 0..size-1
  write_queue,                \* [head, waiting]: read index and item count
  task,                       \* per writer task: its position in ser_write_r
  errno,                      \* per task: r->_errno
  flush,                      \* the daemon's position in ser_output_flush
  ctl_ret,                    \* what the last serctl call returned
  open_ret,                   \* what the last ser_open_r call returned
  wire,                       \* bytes the transport accepted, in order
  enq,                        \* history: every byte appended, with its call
  deq,                        \* history: number of bytes removed from the queue
  verbs,                      \* history: ACTIVATE/DEACTIVATE issued per tag
  ops,                        \* number of entry points invoked so far
  read_mtx,                   \* 0 when free, else the task holding it
  reader,                     \* per task: its position in ser_read_r
  inp,                        \* the inbound bytes inp_buffer_read has yet to return
  arrived,                    \* history: every inbound byte, in arrival order
  taken,                      \* history: every byte inp_buffer_read returned, with its call
  tx_free                     \* what vexSerialWriteFree last reported to the periodic flush

vars == << files, enabled_streams_set, ser_driver_runtime_config, write_mtx,
           write_buffer, write_queue, task, errno, flush, ctl_ret, open_ret,
           wire, enq, deq, verbs, ops, read_mtx, reader, inp, arrived, taken,
           tx_free >>

\* The state of the read path, which the write path, the flush, serctl and
\* ser_open_r never touch.
read_vars == << read_mtx, reader, inp, arrived, taken >>

\* Everything ser_read_r never touches.
write_vars == << files, enabled_streams_set, ser_driver_runtime_config, write_mtx,
                 write_buffer, write_queue, task, errno, flush, ctl_ret, open_ret,
                 wire, enq, deq, verbs, tx_free >>


(***************************************************************************)
(* kapi queue on static storage (rtos queue): a ring over write_buffer.    *)
(* The write index is (head + waiting) % size.                             *)
(***************************************************************************)
queue_get_waiting(q) == q.waiting

queue_full(q) == q.waiting = VEX_SERIAL_BUFFER_SIZE

\* queue_append with space available: the item goes to the tail slot.
queue_append_buffer(buffer, q, item) ==
  [buffer EXCEPT ![(q.head + q.waiting) % VEX_SERIAL_BUFFER_SIZE] = item]

queue_append_queue(q) == [q EXCEPT !.waiting = @ + 1]

\* queue_recv(queue, NULL, 0): drops the head item when there is one.
queue_recv(q) ==
  IF q.waiting = 0 THEN q
  ELSE [head |-> (q.head + 1) % VEX_SERIAL_BUFFER_SIZE, waiting |-> q.waiting - 1]

\* queue_reset: empty, read and write positions back at the storage base.
queue_reset(q) == [head |-> 0, waiting |-> 0]

\* The queued bytes, oldest first.
Contents ==
  [i \in 1..write_queue.waiting |->
     write_buffer[(write_queue.head + i - 1) % VEX_SERIAL_BUFFER_SIZE]]

(***************************************************************************)
(* Initial state: ser_driver_initialize.                                   *)
(***************************************************************************)
IdleTask ==
  [pc |-> "idle", file |-> RESERVED_SER_FILES[1], buf |-> <<>>, cobs |-> FALSE,
   out |-> <<>>, idx |-> 0, ok |-> TRUE, ret |-> 0, exit |-> 0, call |-> 0]

IdleFlush ==
  [pc |-> "idle", waiting |-> 0, ret |-> 0, sent |-> 0, before |-> <<>>, deq0 |-> 0]

\* A task outside ser_read_r.  stored are the bytes written through buffer,
\* term the index line 152 wrote the zero to (-1 while it has not), stop the
\* line at which the loop ended: 134 (read < len is false), 139 (no data
\* after some byte) or 148 (newline).
IdleReader ==
  [pc |-> "idle", len |-> 0, read |-> 0, stored |-> <<>>, term |-> -1,
   stop |-> 0, ret |-> 0, start |-> 0, call |-> 0]

\* Lines 329-332: the reserved files under their descriptors.
RESERVED_SER_FILES_BY_FD == [fd \in 0..3 |-> RESERVED_SER_FILES[fd + 1]]

CtlTags == {STDOUT_STREAM_ID, STDERR_STREAM_ID, KDBG_STREAM_ID}

Init ==
  /\ files = RESERVED_SER_FILES_BY_FD
  /\ enabled_streams_set = {STDOUT_STREAM_ID}
  /\ ser_driver_runtime_config = E_COBS_ENABLED
  /\ write_mtx = 0
  /\ write_buffer = [i \in 0..(VEX_SERIAL_BUFFER_SIZE - 1) |-> 0]
  /\ write_queue = [head |-> 0, waiting |-> 0]
  /\ task = [t \in Tasks |-> IdleTask]
  /\ errno = [t \in Tasks |-> 0]
  /\ flush = IdleFlush
  /\ ctl_ret = 0
  /\ open_ret = [fd |-> 0, errno |-> 0]
  /\ wire = <<>>
  /\ enq = <<>>
  /\ deq = 0
  /\ verbs = [s \in CtlTags |-> [last |-> 0, activated |-> FALSE]]
  /\ ops = 0
  /\ read_mtx = 0
  /\ reader = [t \in Tasks |-> IdleReader]
  /\ inp = <<>>
  /\ arrived = <<>>
  /\ taken = <<>>
  /\ tx_free = 0

(***************************************************************************)
(* ser_write_r, lines 156-203.                                             *)
(***************************************************************************)
\* Variant: the guaranteed-delivery list is not consulted.
filtered_out_set_only(file, enabled) == file.stream_id \notin enabled

\* Variant: the negation of set_contains is lost.
filtered_out_inverted(file, enabled) ==
  /\ ~list_contains(guaranteed_delivery_streams, file.stream_id)
  /\ file.stream_id \in enabled

\* Lines 159-160: the stream is neither guaranteed delivery nor enabled.
filtered_out(file, enabled) ==
  /\ ~list_contains(guaranteed_delivery_streams, file.stream_id)
  /\ file.stream_id \notin enabled

\* Variant: line 166 with "=" in place of "&=".
config_assign_cobs(config) == E_COBS_ENABLED

\* Line 166: "if (ser_driver_runtime_config &= E_COBS_ENABLED)" assigns.
config_and_cobs(config) == IF config % 2 = 1 THEN E_COBS_ENABLED ELSE 0

\* Variant: the tag and the payload are queued as they are, then the delimiter.
cobs_buf_unstuffed(buf, file) == StreamBytes(file.stream_id) \o buf \o <<0>>

\* Lines 168-177: cobs_buf[cobs_len + 1], the encoding and the delimiter.
cobs_buf(buf, file) ==
  LET cobs_len == cobs_encode_measure(buf, file.stream_id)
      encoded  == cobs_encode(buf, file.stream_id)
  IN  [i \in 1..(cobs_len + 1) |-> IF i = cobs_len + 1 THEN 0 ELSE encoded[i]]

\* Variant: the frame is built whatever the config says.
write_bytes_always_framed(cobs, buf, file) == cobs_buf(buf, file)

\* The bytes handed to ser_output_write: lines 179 and 194.
write_bytes(cobs, buf, file) == IF cobs THEN cobs_buf(buf, file) ELSE buf

\* Variant: the handle's flag decides the timeout with and without framing.
take_timeout_by_flag(cobs, file) == IF NoBlock(file) THEN 0 ELSE TIMEOUT_MAX

\* The timeout of mutex_take: lines 172 and 189.
take_timeout(cobs, file) ==
  IF cobs THEN (IF NoBlock(file) THEN 0 ELSE TIMEOUT_MAX) ELSE TIMEOUT_MAX

\* Lines 156-170: copy the file argument, filter, read the config.
ser_write_r_call(t, fd, buf) ==
  /\ task[t].pc = "idle"
  /\ reader[t].pc = "idle"
  /\ ops < MaxOps
  /\ ops' = ops + 1
  /\ LET file == files[fd] IN
     IF filtered_out(file, enabled_streams_set)
     THEN /\ task' = [task EXCEPT ![t] =
                 [IdleTask EXCEPT !.file = file, !.buf = buf, !.ret = Len(buf),
                                  !.exit = 163, !.call = ops + 1]]
          /\ UNCHANGED ser_driver_runtime_config
     ELSE /\ ser_driver_runtime_config' = config_and_cobs(ser_driver_runtime_config)
          /\ task' = [task EXCEPT ![t] =
                 [IdleTask EXCEPT !.pc = "take", !.file = file, !.buf = buf,
                                  !.cobs = (ser_driver_runtime_config' # 0),
                                  !.call = ops + 1]]
  /\ UNCHANGED << read_vars, tx_free >>
  /\ UNCHANGED << files, enabled_streams_set, write_mtx, write_buffer, write_queue,
                  errno, flush, ctl_ret, open_ret, wire, enq, deq, verbs >>

\* mutex_take(write_mtx, timeout) succeeds exactly when the mutex is free.
mutex_free(mtx) == mtx = 0

\* Variant: the write proceeds without waiting for the mutex.
ser_write_r_take_unlocked(t) ==
  /\ task[t].pc = "take"
  /\ LET me  == task[t]
         out == write_bytes(me.cobs, me.buf, me.file)
     IN /\ write_mtx' = t
        /\ task' = [task EXCEPT ![t] =
               [me EXCEPT !.pc = IF Len(out) = 0 THEN "give" ELSE "push",
                          !.out = out, !.idx = 0, !.ok = TRUE]]
  /\ UNCHANGED << read_vars, tx_free >>
  /\ UNCHANGED << files, enabled_streams_set, ser_driver_runtime_config, write_buffer,
                  write_queue, errno, flush, ctl_ret, open_ret, wire, enq, deq, verbs, ops >>

\* Lines 172-177 and 189-192: take the write mutex or give up.
ser_write_r_take(t) ==
  /\ task[t].pc = "take"
  /\ LET me  == task[t]
         out == write_bytes(me.cobs, me.buf, me.file)
     IN IF mutex_free(write_mtx)
        THEN /\ write_mtx' = t
             /\ task' = [task EXCEPT ![t] =
                    [me EXCEPT !.pc = IF Len(out) = 0 THEN "give" ELSE "push",
                               !.out = out, !.idx = 0, !.ok = TRUE]]
             /\ UNCHANGED errno
        ELSE /\ take_timeout(me.cobs, me.file) = 0
             /\ errno' = [errno EXCEPT ![t] = EACCES]
             /\ task' = [task EXCEPT ![t] =
                    [me EXCEPT !.pc = "idle", !.ret = 0, !.exit = 174]]
             /\ UNCHANGED write_mtx
  /\ UNCHANGED << read_vars, tx_free >>
  /\ UNCHANGED << files, enabled_streams_set, ser_driver_runtime_config, write_buffer,
                  write_queue, flush, ctl_ret, open_ret, wire, enq, deq, verbs, ops >>

\* Variant: a refused non-blocking append overwrites the oldest byte.
ser_output_write_overwrite(t) ==
  /\ task[t].pc = "push"
  /\ LET me == task[t] IN
     IF ~queue_full(write_queue)
     THEN /\ write_buffer' = queue_append_buffer(write_buffer, write_queue, me.out[me.idx + 1])
          /\ write_queue' = queue_append_queue(write_queue)
          /\ enq' = Append(enq, [call |-> me.call, byte |-> me.out[me.idx + 1]])
          /\ task' = [task EXCEPT ![t] =
                 [me EXCEPT !.idx = @ + 1,
                            !.pc = IF me.idx + 1 = Len(me.out) THEN "give" ELSE "push"]]
     ELSE /\ NoBlock(me.file)
          /\ write_buffer' = [write_buffer EXCEPT ![write_queue.head] = me.out[me.idx + 1]]
          /\ task' = [task EXCEPT ![t] = [me EXCEPT !.ok = FALSE, !.pc = "give"]]
          /\ UNCHANGED << write_queue, enq >>
  /\ UNCHANGED << read_vars, tx_free >>
  /\ UNCHANGED << files, enabled_streams_set, ser_driver_runtime_config, write_mtx,
                  errno, flush, ctl_ret, open_ret, wire, deq, verbs, ops >>

\* Lines 111-121, one turn of the loop: queue_append of buffer[idx].
ser_output_write(t) ==
  /\ task[t].pc = "push"
  /\ LET me == task[t] IN
     IF ~queue_full(write_queue)
     THEN /\ write_buffer' = queue_append_buffer(write_buffer, write_queue, me.out[me.idx + 1])
          /\ write_queue' = queue_append_queue(write_queue)
          /\ enq' = Append(enq, [call |-> me.call, byte |-> me.out[me.idx + 1]])
          /\ task' = [task EXCEPT ![t] =
                 [me EXCEPT !.idx = @ + 1,
                            !.pc = IF me.idx + 1 = Len(me.out) THEN "give" ELSE "push"]]
     ELSE /\ NoBlock(me.file)
          /\ task' = [task EXCEPT ![t] = [me EXCEPT !.ok = FALSE, !.pc = "give"]]
          /\ UNCHANGED << write_buffer, write_queue, enq >>
  /\ UNCHANGED << read_vars, tx_free >>
  /\ UNCHANGED << files, enabled_streams_set, ser_driver_runtime_config, write_mtx,
                  errno, flush, ctl_ret, open_ret, wire, deq, verbs, ops >>

\* Variant: the error path returns without mutex_give.
ser_write_r_give_not_on_error(t) ==
  /\ task[t].pc = "give"
  /\ LET me == task[t] IN
     IF me.ok
     THEN /\ write_mtx' = 0
          /\ task' = [task EXCEPT ![t] =
                 [me EXCEPT !.pc = "idle", !.ret = Len(me.buf),
                            !.exit = IF me.cobs THEN 186 ELSE 201]]
          /\ UNCHANGED errno
     ELSE /\ UNCHANGED write_mtx
          /\ errno' = [errno EXCEPT ![t] = EIO]
          /\ task' = [task EXCEPT ![t] =
                 [me EXCEPT !.pc = "idle", !.ret = 0,
                            !.exit = IF me.cobs THEN 184 ELSE 199]]
  /\ UNCHANGED << read_vars, tx_free >>
  /\ UNCHANGED << files, enabled_streams_set, ser_driver_runtime_config, write_buffer,
                  write_queue, flush, ctl_ret, open_ret, wire, enq, deq, verbs, ops >>

\* Variant: the test of ser_output_write's result is inverted.
ser_write_r_give_inverted(t) ==
  /\ task[t].pc = "give"
  /\ write_mtx' = 0
  /\ LET me == task[t] IN
     IF ~me.ok
     THEN /\ task' = [task EXCEPT ![t] =
                 [me EXCEPT !.pc = "idle", !.ret = Len(me.buf),
                            !.exit = IF me.cobs THEN 186 ELSE 201]]
          /\ UNCHANGED errno
     ELSE /\ errno' = [errno EXCEPT ![t] = EIO]
          /\ task' = [task EXCEPT ![t] =
                 [me EXCEPT !.pc = "idle", !.ret = 0,
                            !.exit = IF me.cobs THEN 184 ELSE 199]]
  /\ UNCHANGED << read_vars, tx_free >>
  /\ UNCHANGED << files, enabled_streams_set, ser_driver_runtime_config, write_buffer,
                  write_queue, flush, ctl_ret, open_ret, wire, enq, deq, verbs, ops >>

\* Variant: a successful write reports the number of bytes it queued.
ser_write_r_give_wire_length(t) ==
  /\ task[t].pc = "give"
  /\ write_mtx' = 0
  /\ LET me == task[t] IN
     IF me.ok
     THEN /\ task' = [task EXCEPT ![t] =
                 [me EXCEPT !.pc = "idle", !.ret = Len(me.out),
                            !.exit = IF me.cobs THEN 186 ELSE 201]]
          /\ UNCHANGED errno
     ELSE /\ errno' = [errno EXCEPT ![t] = EIO]
          /\ task' = [task EXCEPT ![t] =
                 [me EXCEPT !.pc = "idle", !.ret = 0,
                            !.exit = IF me.cobs THEN 184 ELSE 199]]
  /\ UNCHANGED << read_vars, tx_free >>
  /\ UNCHANGED << files, enabled_streams_set, ser_driver_runtime_config, write_buffer,
                  write_queue, flush, ctl_ret, open_ret, wire, enq, deq, verbs, ops >>

\* Lines 180-186 and 196-201: give the mutex back and return.
ser_write_r_give(t) ==
  /\ task[t].pc = "give"
  /\ write_mtx' = 0
  /\ LET me == task[t] IN
     IF me.ok
     THEN /\ task' = [task EXCEPT ![t] =
                 [me EXCEPT !.pc = "idle", !.ret = Len(me.buf),
                            !.exit = IF me.cobs THEN 186 ELSE 201]]
          /\ UNCHANGED errno
     ELSE /\ errno' = [errno EXCEPT ![t] = EIO]
          /\ task' = [task EXCEPT ![t] =
                 [me EXCEPT !.pc = "idle", !.ret = 0,
                            !.exit = IF me.cobs THEN 184 ELSE 199]]
  /\ UNCHANGED << read_vars, tx_free >>
  /\ UNCHANGED << files, enabled_streams_set, ser_driver_runtime_config, write_buffer,
                  write_queue, flush, ctl_ret, open_ret, wire, enq, deq, verbs, ops >>

(***************************************************************************)
(* ser_output_flush, lines 97-109.                                         *)
(***************************************************************************)
\* Variant: the bulk write needs one free byte more than what waits.
flush_wanted_spare_room(waiting, free) == waiting # 0 /\ waiting < free

\* Variant: the bulk write is attempted whenever something waits.
flush_wanted_any_room(waiting, free) == waiting # 0 /\ free # 0

\* Line 99: something waits and the transport has room for all of it.
flush_wanted(waiting, free) == waiting # 0 /\ waiting <= free

\* Line 100: the transport is handed write_buffer, the base of the storage,
\* and takes the first ret bytes from there.
flush_taken(buffer, q, ret) == [i \in 1..ret |-> buffer[i - 1]]

\* Lines 98-99 when vexSerialWriteFree(1) reports free: read the waiting
\* count and decide whether the bulk write of line 100 is attempted.
ser_output_flush_check(free) ==
  /\ flush.pc = "idle"
  /\ ops < MaxOps
  /\ ops' = ops + 1
  /\ LET waiting == queue_get_waiting(write_queue) IN
     flush' = IF flush_wanted(waiting, free)
              THEN [IdleFlush EXCEPT !.pc = "send", !.waiting = waiting,
                                     !.before = SubSeq(Contents, 1, waiting),
                                     !.deq0 = deq]
              ELSE IdleFlush
  /\ UNCHANGED << read_vars, tx_free >>
  /\ UNCHANGED << files, enabled_streams_set, ser_driver_runtime_config, write_mtx,
                  write_buffer, write_queue, task, errno, ctl_ret, open_ret, wire,
                  enq, deq, verbs >>

\* Lines 98-99: the transport reports any free count.
ser_output_flush_begin == \E free \in 0..VEX_SERIAL_BUFFER_SIZE : ser_output_flush_check(free)

\* Lines 98-99 in the periodic call of ser_output_flush by the system daemon:
\* as ser_output_flush_check, but not charged to the budget of entry points;
\* tx_free keeps what the transport reported.
ser_output_flush_poll(free) ==
  /\ flush.pc = "idle"
  /\ tx_free' = free
  /\ LET waiting == queue_get_waiting(write_queue) IN
     flush' = IF flush_wanted(waiting, free)
              THEN [IdleFlush EXCEPT !.pc = "send", !.waiting = waiting,
                                     !.before = SubSeq(Contents, 1, waiting),
                                     !.deq0 = deq]
              ELSE IdleFlush
  /\ UNCHANGED read_vars
  /\ UNCHANGED << files, enabled_streams_set, ser_driver_runtime_config, write_mtx,
                  write_buffer, write_queue, task, errno, ctl_ret, open_ret, wire,
                  enq, deq, verbs, ops >>

\* Lines 100-101: vexSerialWriteBuffer accepts ret of the waiting bytes.
ser_output_flush_send ==
  /\ flush.pc = "send"
  /\ \E ret \in 0..flush.waiting :
       /\ wire' = wire \o flush_taken(write_buffer, write_queue, ret)
       /\ flush' = [flush EXCEPT !.pc = IF ret = flush.waiting THEN "reset" ELSE "recv",
                                 !.ret = ret, !.sent = ret]
  /\ UNCHANGED << read_vars, tx_free >>
  /\ UNCHANGED << files, enabled_streams_set, ser_driver_runtime_config, write_mtx,
                  write_buffer, write_queue, task, errno, ctl_ret, open_ret, enq, deq,
                  verbs, ops >>

\* Lines 100-101 when the transport accepts all it is given.
ser_output_flush_send_all ==
  /\ ser_output_flush_send
  /\ flush'.sent = flush.waiting

\* Line 102: everything was accepted, queue_reset.
ser_output_flush_reset ==
  /\ flush.pc = "reset"
  /\ write_queue' = queue_reset(write_queue)
  /\ deq' = deq + write_queue.waiting
  /\ flush' = IdleFlush
  /\ UNCHANGED << read_vars, tx_free >>
  /\ UNCHANGED << files, enabled_streams_set, ser_driver_runtime_config, write_mtx,
                  write_buffer, task, errno, ctl_ret, open_ret, wire, enq, verbs, ops >>

\* Variant: the partial branch resets the queue like the full one.
ser_output_flush_recv_reset ==
  /\ flush.pc = "recv"
  /\ IF flush.ret = 0
     THEN /\ flush' = IdleFlush
          /\ UNCHANGED << write_queue, deq >>
     ELSE /\ write_queue' = queue_reset(write_queue)
          /\ deq' = deq + write_queue.waiting
          /\ flush' = [flush EXCEPT !.ret = 0]
  /\ UNCHANGED << read_vars, tx_free >>
  /\ UNCHANGED << files, enabled_streams_set, ser_driver_runtime_config, write_mtx,
                  write_buffer, task, errno, ctl_ret, open_ret, wire, enq, verbs, ops >>

\* Lines 104-106: "while (ret--) queue_recv(...)", one turn or the exit.
ser_output_flush_recv ==
  /\ flush.pc = "recv"
  /\ IF flush.ret = 0
     THEN /\ flush' = IdleFlush
          /\ UNCHANGED << write_queue, deq >>
     ELSE /\ write_queue' = queue_recv(write_queue)
          /\ deq' = deq + (write_queue.waiting - write_queue'.waiting)
          /\ flush' = [flush EXCEPT !.ret = @ - 1]
  /\ UNCHANGED << read_vars, tx_free >>
  /\ UNCHANGED << files, enabled_streams_set, ser_driver_runtime_config, write_mtx,
                  write_buffer, task, errno, ctl_ret, open_ret, wire, enq, verbs, ops >>

(***************************************************************************)
(* serctl, lines 277-314.                                                  *)
(***************************************************************************)
\* set_add and set_rm of common/set.
set_add(set, item) == set \cup {item}
set_rm(set, item) == set \ {item}

\* Variant: the guaranteed-delivery list is not consulted.
serctl_streams_unguarded(set, action, parameter) ==
  IF action = SERCTL_ACTIVATE THEN set_add(set, parameter)
  ELSE IF action = SERCTL_DEACTIVATE THEN set_rm(set, parameter)
  ELSE set

\* Variant: DEACTIVATE leaves the set as it is.
serctl_streams_no_rm(set, action, parameter) ==
  IF list_contains(guaranteed_delivery_streams, parameter) THEN set
  ELSE IF action = SERCTL_ACTIVATE THEN set_add(set, parameter)
  ELSE set

\* Lines 283-298: the enabled set after ACTIVATE or DEACTIVATE of parameter.
serctl_streams(set, action, parameter) ==
  IF list_contains(guaranteed_delivery_streams, parameter) THEN set
  ELSE IF action = SERCTL_ACTIVATE THEN set_add(set, parameter)
  ELSE IF action = SERCTL_DEACTIVATE THEN set_rm(set, parameter)
  ELSE set

\* Lines 299-304: the flags word after BLKWRITE or NOBLKWRITE.
serctl_flags(flags, action) ==
  IF action = SERCTL_BLKWRITE THEN flags - (flags % 2)
  ELSE IF action = SERCTL_NOBLKWRITE THEN flags - (flags % 2) + E_NOBLK_WRITE
  ELSE flags

\* Lines 278-281: "file = *(ser_file_s_t*)arg" is a copy on serctl's stack;
\* lines 300 and 303 assign to the copy, and nothing stores it back.
serctl_files(table, fd, action) ==
  LET file == [table[fd] EXCEPT !.flags = serctl_flags(@, action)]
  IN  table

\* Lines 305-310: the runtime config after ENABLE_COBS or DISABLE_COBS.
serctl_config(config, action) ==
  IF action = SERCTL_ENABLE_COBS THEN config - (config % 2) + E_COBS_ENABLED
  ELSE IF action = SERCTL_DISABLE_COBS THEN config - (config % 2)
  ELSE config

\* Lines 290, 298, 301, 304, 307, 310, 312: the status returned.
serctl_status(action) == IF action \in UnknownActions THEN UINT32_MINUS_ONE ELSE 0

serctl(fd, action, parameter) ==
  /\ ops < MaxOps
  /\ ops' = ops + 1
  /\ enabled_streams_set' = serctl_streams(enabled_streams_set, action, parameter)
  /\ files' = serctl_files(files, fd, action)
  /\ ser_driver_runtime_config' = serctl_config(ser_driver_runtime_config, action)
  /\ ctl_ret' = serctl_status(action)
  /\ verbs' = IF action \in {SERCTL_ACTIVATE, SERCTL_DEACTIVATE}
              THEN [verbs EXCEPT ![parameter] =
                      [last |-> action,
                       activated |-> @.activated \/ action = SERCTL_ACTIVATE]]
              ELSE verbs
  /\ UNCHANGED << read_vars, tx_free >>
  /\ UNCHANGED << write_mtx, write_buffer, write_queue, task, errno, flush, open_ret,
                  wire, enq, deq >>

(***************************************************************************)
(* ser_open_r, lines 240-274.                                              *)
(***************************************************************************)
\* Lines 245-247: one leading separator is skipped.
strip_separator(path) == IF path # <<>> /\ Head(path) = 47 THEN Tail(path) ELSE path

\* Lines 250-259: a fifth character exists.
name_too_long(name) == Len(name) > 4

\* Lines 261-269: the reserved names "sout", "sin", "serr".
reserved_fd(name) ==
  IF name = <<115, 111, 117, 116>> THEN STDOUT_FILENO
  ELSE IF name = <<115, 105, 110>> THEN STDIN_FILENO
  ELSE IF name = <<115, 101, 114, 114>> THEN STDERR_FILENO
  ELSE -1

\* Lines 271-272: kmalloc and memcpy of strlen(path) bytes; the other bytes
\* of stream[] and the flags word keep whatever the heap held.
new_files(name) ==
  { [stream_id |-> StreamId(name \o junk), flags |-> f] :
      junk \in [1..(4 - Len(name)) -> UninitBytes], f \in UninitFlags }

\* Lines 240-273: what the call returns and the handle it creates.
ser_open_r_effect(path) ==
  /\ LET name == strip_separator(path) IN
     IF path = <<>>
     THEN open_ret' = [fd |-> STDOUT_FILENO, errno |-> open_ret.errno] /\ UNCHANGED files
     ELSE IF name_too_long(name)
     THEN open_ret' = [fd |-> -1, errno |-> ENAMETOOLONG] /\ UNCHANGED files
     ELSE IF reserved_fd(name) # -1
     THEN open_ret' = [fd |-> reserved_fd(name), errno |-> open_ret.errno] /\ UNCHANGED files
     ELSE \E arg \in new_files(name) :
            LET fd == Cardinality(DOMAIN files) IN
            /\ files' = files @@ (fd :> arg)
            /\ open_ret' = [fd |-> fd, errno |-> open_ret.errno]
  /\ UNCHANGED << read_vars, tx_free >>
  /\ UNCHANGED << enabled_streams_set, ser_driver_runtime_config, write_mtx, write_buffer,
                  write_queue, task, errno, flush, ctl_ret, wire, enq, deq, verbs >>

ser_open_r(path) ==
  /\ ops < MaxOps
  /\ ops' = ops + 1
  /\ ser_open_r_effect(path)

\* The first ser_open_r of a run, not charged to the budget of entry points.
ser_open_r_first(path) ==
  /\ DOMAIN files = DOMAIN RESERVED_SER_FILES_BY_FD
  /\ UNCHANGED ops
  /\ ser_open_r_effect(path)

(***************************************************************************)
(* ser_read_r, lines 126-154, and the inbound source behind                *)
(* inp_buffer_read (line 86).                                              *)
(***************************************************************************)
\* A byte arrives from the transport and waits in the input buffer.
inp_arrive(b) ==
  /\ ops < MaxOps
  /\ ops' = ops + 1
  /\ inp' = Append(inp, b)
  /\ arrived' = Append(arrived, b)
  /\ UNCHANGED << read_mtx, reader, taken >>
  /\ UNCHANGED write_vars

\* inp_buffer_read(0): the oldest waiting byte, or -1 when none waits.
inp_buffer_read(pending) == IF pending = <<>> THEN -1 ELSE Head(pending)

\* Lines 126-129: the call, read = 0.
ser_read_r_call(t, len) ==
  /\ reader[t].pc = "idle"
  /\ task[t].pc = "idle"
  /\ ops < MaxOps
  /\ ops' = ops + 1
  /\ reader' = [reader EXCEPT ![t] =
         [IdleReader EXCEPT !.pc = "take", !.len = len, !.call = ops + 1]]
  /\ UNCHANGED << read_mtx, inp, arrived, taken >>
  /\ UNCHANGED write_vars

\* Variant: the loop is entered without waiting for the mutex.
ser_read_r_take_unlocked(t) ==
  /\ reader[t].pc = "take"
  /\ read_mtx' = t
  /\ reader' = [reader EXCEPT ![t] = [@ EXCEPT !.pc = "loop", !.start = Len(taken)]]
  /\ UNCHANGED << inp, arrived, taken, ops >>
  /\ UNCHANGED write_vars

\* Line 130: mutex_take(read_mtx, TIMEOUT_MAX) waits until the mutex is free.
ser_read_r_take(t) ==
  /\ reader[t].pc = "take"
  /\ mutex_free(read_mtx)
  /\ read_mtx' = t
  /\ reader' = [reader EXCEPT ![t] = [@ EXCEPT !.pc = "loop", !.start = Len(taken)]]
  /\ UNCHANGED << inp, arrived, taken, ops >>
  /\ UNCHANGED write_vars

\* Variant: a no-data signal ends the read also when nothing was read.
ser_read_r_loop_nodata_ends(t) ==
  /\ reader[t].pc = "loop"
  /\ LET me == reader[t]
         c  == inp_buffer_read(inp)
     IN IF ~(me.read < me.len)
        THEN /\ reader' = [reader EXCEPT ![t] = [me EXCEPT !.pc = "give", !.stop = 134]]
             /\ UNCHANGED << inp, taken >>
        ELSE IF c = -1
        THEN /\ reader' = [reader EXCEPT ![t] = [me EXCEPT !.pc = "give", !.stop = 139]]
             /\ UNCHANGED << inp, taken >>
        ELSE /\ inp' = Tail(inp)
             /\ taken' = Append(taken, [call |-> me.call, byte |-> c])
             /\ reader' = [reader EXCEPT ![t] =
                    [me EXCEPT !.stored = Append(@, c % 256), !.read = @ + 1,
                               !.pc = IF c = 10 THEN "give" ELSE "loop",
                               !.stop = IF c = 10 THEN 148 ELSE 0]]
  /\ UNCHANGED << read_mtx, arrived, ops >>
  /\ UNCHANGED write_vars

\* Lines 134-150, one turn of the loop: the test read < len, one
\* inp_buffer_read(0), and what follows it.  With nothing read and no data
\* the turn ends in "continue" and changes nothing.
ser_read_r_loop(t) ==
  /\ reader[t].pc = "loop"
  /\ LET me == reader[t]
         c  == inp_buffer_read(inp)
     IN IF ~(me.read < me.len)
        THEN /\ reader' = [reader EXCEPT ![t] = [me EXCEPT !.pc = "give", !.stop = 134]]
             /\ UNCHANGED << inp, taken >>
        ELSE IF c = -1
        THEN /\ reader' = IF me.read # 0
                          THEN [reader EXCEPT ![t] = [me EXCEPT !.pc = "give", !.stop = 139]]
                          ELSE reader
             /\ UNCHANGED << inp, taken >>
        ELSE /\ inp' = Tail(inp)
             /\ taken' = Append(taken, [call |-> me.call, byte |-> c])
             /\ reader' = [reader EXCEPT ![t] =
                    [me EXCEPT !.stored = Append(@, c % 256), !.read = @ + 1,
                               !.pc = IF c = 10 THEN "give" ELSE "loop",
                               !.stop = IF c = 10 THEN 148 ELSE 0]]
  /\ UNCHANGED << read_mtx, arrived, ops >>
  /\ UNCHANGED write_vars

\* Line 151: mutex_give(read_mtx).
ser_read_r_give(t) ==
  /\ reader[t].pc = "give"
  /\ read_mtx' = 0
  /\ reader' = [reader EXCEPT ![t] = [@ EXCEPT !.pc = "term"]]
  /\ UNCHANGED << inp, arrived, taken, ops >>
  /\ UNCHANGED write_vars

\* Lines 152-153: "*buffer = 0" at the index reached, and return read.
ser_read_r_return(t) ==
  /\ reader[t].pc = "term"
  /\ reader' = [reader EXCEPT ![t] =
         [reader[t] EXCEPT !.pc = "idle", !.term = reader[t].read,
                           !.ret = reader[t].read]]
  /\ UNCHANGED << read_mtx, inp, arrived, taken, ops >>
  /\ UNCHANGED write_vars

(***************************************************************************)
(* The specifications.  Spec is the whole driver.  SpecData and SpecPolicy *)
(* run the same actions from the same initial state with fewer inputs:     *)
(* SpecData keeps both writer tasks and the verbs that decide how bytes    *)
(* are queued, SpecPolicy keeps every verb and every path with one writer. *)
(***************************************************************************)
Next ==
  \/ \E t \in Tasks, fd \in DOMAIN files, buf \in Payloads : ser_write_r_call(t, fd, buf)
  \/ \E t \in Tasks : ser_write_r_take(t)
  \/ \E t \in Tasks : ser_output_write(t)
  \/ \E t \in Tasks : ser_write_r_give(t)
  \/ ser_output_flush_begin
  \/ ser_output_flush_send
  \/ ser_output_flush_reset
  \/ ser_output_flush_recv
  \/ \E action \in {SERCTL_ACTIVATE, SERCTL_DEACTIVATE}, parameter \in CtlTags :
       serctl(STDOUT_FILENO, action, parameter)
  \/ \E fd \in DOMAIN files, action \in {SERCTL_BLKWRITE, SERCTL_NOBLKWRITE} :
       serctl(fd, action, 0)
  \/ \E action \in {SERCTL_ENABLE_COBS, SERCTL_DISABLE_COBS} \cup UnknownActions :
       serctl(STDOUT_FILENO, action, 0)
  \/ \E path \in OpenPaths : ser_open_r(path)
  \/ \E b \in InBytes : inp_arrive(b)
  \/ \E t \in Tasks, len \in ReadLens : ser_read_r_call(t, len)
  \/ \E t \in Tasks : ser_read_r_take(t)
  \/ \E t \in Tasks : ser_read_r_loop(t)
  \/ \E t \in Tasks : ser_read_r_give(t)
  \/ \E t \in Tasks : ser_read_r_return(t)

Spec == Init /\ [][Next]_vars

\* Handles written to in SpecData: standard output and the opened ones.
DataFds == (DOMAIN files) \ {STDIN_FILENO, STDERR_FILENO, KDBG_FILENO}

NextData ==
  \/ \E t \in Tasks, fd \in DataFds, buf \in Payloads : ser_write_r_call(t, fd, buf)
  \/ \E t \in Tasks : ser_write_r_take(t)
  \/ \E t \in Tasks : ser_output_write(t)
  \/ \E t \in Tasks : ser_write_r_give(t)
  \/ ser_output_flush_begin
  \/ ser_output_flush_send
  \/ ser_output_flush_reset
  \/ ser_output_flush_recv
  \/ serctl(STDOUT_FILENO, SERCTL_ACTIVATE, KDBG_STREAM_ID)
  \/ \E action \in {SERCTL_ENABLE_COBS, SERCTL_DISABLE_COBS} :
       serctl(STDOUT_FILENO, action, 0)
  \/ ser_open_r(<<107, 100, 98, 103>>)

SpecData == Init /\ [][NextData]_vars

NextPolicy ==
  \/ \E fd \in DOMAIN files, buf \in Payloads : ser_write_r_call(1, fd, buf)
  \/ ser_write_r_take(1)
  \/ ser_output_write(1)
  \/ ser_write_r_give(1)
  \/ ser_output_flush_begin
  \/ ser_output_flush_send
  \/ ser_output_flush_reset
  \/ ser_output_flush_recv
  \/ \E action \in {SERCTL_ACTIVATE, SERCTL_DEACTIVATE}, parameter \in CtlTags :
       serctl(STDOUT_FILENO, action, parameter)
  \/ \E fd \in DOMAIN files, action \in {SERCTL_BLKWRITE, SERCTL_NOBLKWRITE} :
       serctl(fd, action, 0)
  \/ \E action \in {SERCTL_ENABLE_COBS, SERCTL_DISABLE_COBS} \cup UnknownActions :
       serctl(STDOUT_FILENO, action, 0)
  \/ \E path \in OpenPaths : ser_open_r(path)

SpecPolicy == Init /\ [][NextPolicy]_vars

\* SpecLock: two writers contend for the write mutex on one opened handle,
\* whose tag bytes and flags are whatever kmalloc returned.
LockPath == <<115, 101, 114>>

LockFds == (DOMAIN files) \ (DOMAIN RESERVED_SER_FILES_BY_FD)

NextLock ==
  \/ ser_open_r_first(LockPath)
  \/ \E t \in Tasks, fd \in LockFds, buf \in Payloads : ser_write_r_call(t, fd, buf)
  \/ \E t \in Tasks : ser_write_r_take(t)
  \/ \E t \in Tasks : ser_output_write(t)
  \/ \E t \in Tasks : ser_write_r_give(t)
  \/ ser_output_flush_begin
  \/ ser_output_flush_send
  \/ ser_output_flush_reset
  \/ ser_output_flush_recv
  \/ \E action \in {SERCTL_ENABLE_COBS, SERCTL_DISABLE_COBS} :
       serctl(STDOUT_FILENO, action, 0)

SpecLock == Init /\ [][NextLock]_vars

\* SpecLive: framing is switched off and two tasks write to standard output
\* (a blocking handle) while the daemon calls ser_output_flush again and
\* again; the transport always reports at least one free byte and accepts
\* all it is given.  Ready tasks and the daemon are scheduled: weak fairness
\* on each of their steps.
NextLive ==
  \/ serctl(STDOUT_FILENO, SERCTL_DISABLE_COBS, 0)
  \/ \E t \in Tasks, buf \in Payloads :
       ser_driver_runtime_config = 0 /\ ser_write_r_call(t, STDOUT_FILENO, buf)
  \/ \E t \in Tasks : ser_write_r_take(t)
  \/ \E t \in Tasks : ser_output_write(t)
  \/ \E t \in Tasks : ser_write_r_give(t)
  \/ \E free \in 1..VEX_SERIAL_BUFFER_SIZE : ser_output_flush_poll(free)
  \/ ser_output_flush_send_all
  \/ ser_output_flush_reset

FairLive ==
  /\ \A t \in Tasks : WF_vars(ser_write_r_take(t))
  /\ \A t \in Tasks : WF_vars(ser_output_write(t))
  /\ \A t \in Tasks : WF_vars(ser_write_r_give(t))
  /\ WF_vars(\E free \in 1..VEX_SERIAL_BUFFER_SIZE : ser_output_flush_poll(free))
  /\ WF_vars(ser_output_flush_send_all)
  /\ WF_vars(ser_output_flush_reset)

SpecLive == Init /\ [][NextLive]_vars /\ FairLive

\* SpecVerbs: every kind of entry point with few inputs: task 1 writes,
\* task 2 reads, and every verb is issued.
NextVerbs ==
  \/ \E fd \in DOMAIN files : ser_write_r_call(1, fd, <<7>>)
  \/ ser_write_r_take(1)
  \/ ser_output_write(1)
  \/ ser_write_r_give(1)
  \/ ser_output_flush_begin
  \/ ser_output_flush_send
  \/ ser_output_flush_reset
  \/ ser_output_flush_recv
  \/ \E action \in {SERCTL_ACTIVATE, SERCTL_DEACTIVATE}, parameter \in CtlTags :
       serctl(STDOUT_FILENO, action, parameter)
  \/ \E action \in {SERCTL_BLKWRITE, SERCTL_NOBLKWRITE} :
       serctl(STDOUT_FILENO, action, 0)
  \/ \E action \in {SERCTL_ENABLE_COBS, SERCTL_DISABLE_COBS} \cup UnknownActions :
       serctl(STDOUT_FILENO, action, 0)
  \/ \E path \in OpenPaths : ser_open_r(path)
  \/ inp_arrive(65)
  \/ ser_read_r_call(2, 1)
  \/ ser_read_r_take(2)
  \/ ser_read_r_loop(2)
  \/ ser_read_r_give(2)
  \/ ser_read_r_return(2)

SpecVerbs == Init /\ [][NextVerbs]_vars

\* SpecRead: two tasks read while bytes arrive, and either may write to
\* standard output instead, with the flush running.
NextRead ==
  \/ \E b \in InBytes : inp_arrive(b)
  \/ \E t \in Tasks, len \in ReadLens : ser_read_r_call(t, len)
  \/ \E t \in Tasks : ser_read_r_take(t)
  \/ \E t \in Tasks : ser_read_r_loop(t)
  \/ \E t \in Tasks : ser_read_r_give(t)
  \/ \E t \in Tasks : ser_read_r_return(t)
  \/ \E t \in Tasks : ser_write_r_call(t, STDOUT_FILENO, <<7>>)
  \/ \E t \in Tasks : ser_write_r_take(t)
  \/ \E t \in Tasks : ser_output_write(t)
  \/ \E t \in Tasks : ser_write_r_give(t)
  \/ ser_output_flush_begin
  \/ ser_output_flush_send
  \/ ser_output_flush_reset
  \/ ser_output_flush_recv

SpecRead == Init /\ [][NextRead]_vars

(***************************************************************************)
(* Properties.                                                             *)
(***************************************************************************)
IsPrefix(a, b) == Len(a) <= Len(b) /\ SubSeq(b, 1, Len(a)) = a

\* Every byte ever appended to the queue, in order.
EnqBytes == [i \in 1..Len(enq) |-> enq[i].byte]

\* The bytes one write call appended, in order.
CallBytes(c) ==
  LET mine == SelectSeq(enq, LAMBDA e : e.call = c)
  IN  [i \in 1..Len(mine) |-> mine[i].byte]

IsGuaranteed(id) == \E i \in 1..Len(guaranteed_delivery_streams) :
                       guaranteed_delivery_streams[i] = id

\* Task t enters ser_write_r in this step.
Begins(t) == task[t].pc = "idle" /\ task'[t].call # task[t].call

\* The block a call has to append: the frame and its delimiter, or the payload.
Expected(me) ==
  IF me.cobs THEN cobs_encode(me.buf, me.file.stream_id) \o <<0>> ELSE me.buf

\* C1: the bytes of one write call are one contiguous block of the queue's
\* input: between two bytes of a call no byte of another call is appended.
C1_FramesNotInterleaved ==
  \A i, j, k \in 1..Len(enq) :
    (i < j /\ j < k /\ enq[i].call = enq[k].call) => enq[j].call = enq[i].call

\* Two writers on the same enabled tag at once: one has appended part of its
\* block, the other waits for the write mutex.
C1_Witness ==
  \E t, u \in Tasks :
    /\ t # u
    /\ task[t].pc = "push" /\ task[t].idx >= 1
    /\ task[u].pc = "take"
    /\ task[t].file.stream_id = task[u].file.stream_id
    /\ write_mtx = t

\* C2: a write on a guaranteed-delivery tag is never filtered out, whatever
\* ACTIVATE and DEACTIVATE have done: what it has appended is the head of its
\* block, a call that reports success has appended the whole block, and on a
\* blocking handle it returns in no other way.
C2_GuaranteedDelivery ==
  \A t \in Tasks :
    LET me == task[t] IN
    (me.call # 0 /\ IsGuaranteed(me.file.stream_id)) =>
      /\ me.exit # 163
      /\ IsPrefix(CallBytes(me.call), Expected(me))
      /\ me.exit \in {186, 201} => CallBytes(me.call) = Expected(me)
      /\ (me.pc = "idle" /\ ~NoBlock(me.file)) => me.exit \in {186, 201}

\* Standard error was named by DEACTIVATE and a later write to it has
\* returned with its bytes in the queue.
C2_Witness ==
  /\ verbs[STDERR_STREAM_ID].last = SERCTL_DEACTIVATE
  /\ task[1].file.stream_id = STDERR_STREAM_ID
  /\ task[1].exit \in {186, 201}
  /\ Len(CallBytes(task[1].call)) >= 1

\* C3: a write to a tag that is neither guaranteed delivery nor enabled
\* returns len in the same step, sets no error, takes no lock and leaves the
\* queue and its storage as they were.
C3_FilteredWriteIsNoOp ==
  [][\A t \in Tasks :
       (/\ Begins(t)
        /\ ~IsGuaranteed(task'[t].file.stream_id)
        /\ task'[t].file.stream_id \notin enabled_streams_set)
       => /\ task'[t].pc = "idle"
          /\ task'[t].ret = Len(task'[t].buf)
          /\ errno' = errno
          /\ write_mtx' = write_mtx
          /\ write_buffer' = write_buffer
          /\ write_queue' = write_queue
          /\ enq' = enq]_vars

\* A filtered write on a non-blocking handle with framing off has returned.
C3_Witness ==
  /\ task[1].exit = 163
  /\ NoBlock(task[1].file)
  /\ ser_driver_runtime_config = 0
  /\ task[1].ret = Len(task[1].buf)
  /\ task[1].file.stream_id \notin enabled_streams_set

\* ACTIVATE has been issued for this tag since initialization.
EverActivated(id) == id \in CtlTags /\ verbs[id].activated

\* C4 as claimed: a write to any tag that is not guaranteed delivery and was
\* never named by ACTIVATE returns len and appends nothing.
C4_NeverActivatedAppendsNothing ==
  [][\A t \in Tasks :
       (/\ Begins(t)
        /\ ~IsGuaranteed(task'[t].file.stream_id)
        /\ ~EverActivated(task'[t].file.stream_id))
       => /\ task'[t].pc = "idle"
          /\ task'[t].ret = Len(task'[t].buf)
          /\ enq' = enq]_vars

\* C4 as amended: the same for every such tag but the standard-output tag,
\* which initialization enables.
C4_NeverActivatedExceptStdout ==
  [][\A t \in Tasks :
       (/\ Begins(t)
        /\ ~IsGuaranteed(task'[t].file.stream_id)
        /\ ~EverActivated(task'[t].file.stream_id)
        /\ task'[t].file.stream_id # STDOUT_STREAM_ID)
       => /\ task'[t].pc = "idle"
          /\ task'[t].ret = Len(task'[t].buf)
          /\ task'[t].exit = 163
          /\ enq' = enq]_vars

\* A write to the debug tag, never activated, has returned.
C4_Witness ==
  /\ task[1].exit = 163
  /\ task[1].file.stream_id = KDBG_STREAM_ID
  /\ ~EverActivated(KDBG_STREAM_ID)
  /\ task[1].ret = Len(task[1].buf)

\* C5 as claimed: a tag is enabled exactly when the last ACTIVATE or
\* DEACTIVATE naming it was ACTIVATE.
C5_EnabledIffLastVerbActivate ==
  \A id \in CtlTags :
    ~IsGuaranteed(id) =>
      (id \in enabled_streams_set <=> verbs[id].last = SERCTL_ACTIVATE)

\* C5 as amended: once a verb has named the tag, it is enabled exactly when
\* the last one was ACTIVATE; until then it has its initial status, enabled
\* for the standard-output tag only.  A write that begins after DEACTIVATE
\* returns len and appends nothing.
C5_EnabledFollowsLastVerb ==
  /\ [](\A id \in CtlTags :
          ~IsGuaranteed(id) =>
            (id \in enabled_streams_set <=>
               \/ verbs[id].last = SERCTL_ACTIVATE
               \/ (verbs[id].last = 0 /\ id = STDOUT_STREAM_ID)))
  /\ [][\A t \in Tasks :
          (/\ Begins(t)
           /\ task'[t].file.stream_id \in CtlTags
           /\ ~IsGuaranteed(task'[t].file.stream_id)
           /\ verbs[task'[t].file.stream_id].last = SERCTL_DEACTIVATE)
          => /\ task'[t].pc = "idle"
             /\ task'[t].ret = Len(task'[t].buf)
             /\ enq' = enq]_vars

\* ACTIVATE then DEACTIVATE of the debug tag, then a write to it has returned.
C5_Witness ==
  /\ verbs[KDBG_STREAM_ID].activated
  /\ verbs[KDBG_STREAM_ID].last = SERCTL_DEACTIVATE
  /\ task[1].file.stream_id = KDBG_STREAM_ID
  /\ task[1].exit = 163

\* C6 as claimed: after SET-NONBLOCKING the handle's flag is set, after
\* SET-BLOCKING it is clear.
C6_FlagMutatedInPlace ==
  [][\A fd \in DOMAIN files :
       /\ serctl(fd, SERCTL_NOBLKWRITE, 0) => NoBlock(files'[fd])
       /\ serctl(fd, SERCTL_BLKWRITE, 0) => ~NoBlock(files'[fd])]_vars

\* C7: the block of a write is decided by the framing flag as the call reads
\* it.  With framing off the call appends its payload and nothing else; with
\* framing on it appends measure(P, tag) + 1 bytes, the last one zero.
C7_FramingDecidesBlock ==
  /\ [](\A t \in Tasks :
          LET me   == task[t]
              sent == CallBytes(me.call)
          IN  (me.call # 0 /\ me.exit # 163) =>
                /\ IsPrefix(sent, Expected(me))
                /\ me.exit = 201 => (~me.cobs /\ sent = me.buf)
                /\ me.exit = 186 =>
                     /\ me.cobs
                     /\ Len(sent) = cobs_encode_measure(me.buf, me.file.stream_id) + 1
                     /\ sent[Len(sent)] = 0)
  /\ [][\A t \in Tasks :
          (Begins(t) /\ task'[t].pc = "take") =>
             (task'[t].cobs <=> ser_driver_runtime_config = E_COBS_ENABLED)]_vars

\* With framing off, a write of the payload 0, 9 has returned with exactly
\* these two bytes appended.
C7_Witness ==
  \E t \in Tasks :
    /\ task[t].exit = 201
    /\ task[t].buf = <<0, 9>>
    /\ CallBytes(task[t].call) = <<0, 9>>
    /\ ser_driver_runtime_config = 0

\* C8 as claimed: what the transport accepted is a prefix of what was
\* appended to the queue.
C8_WireIsPrefixOfEnqueued == IsPrefix(wire, EnqBytes)

\* C9: a non-blocking push that finds the queue full is not made to wait, it
\* reports failure, and the queue, its storage and its order stay as they were.
C9_NonBlockingPushOnFull ==
  /\ [](\A t \in Tasks :
          (task[t].pc = "push" /\ NoBlock(task[t].file) /\ queue_full(write_queue))
          => ENABLED ser_output_write(t))
  /\ [][\A t \in Tasks :
          (/\ task[t].pc = "push"
           /\ NoBlock(task[t].file)
           /\ write_queue.waiting = VEX_SERIAL_BUFFER_SIZE
           /\ task'[t] # task[t])
          => /\ task'[t].pc = "give"
             /\ ~task'[t].ok
             /\ write_buffer' = write_buffer
             /\ write_queue' = write_queue
             /\ enq' = enq]_vars

\* A non-blocking push has just been refused by a full queue.
C9_Witness ==
  \E t \in Tasks :
    /\ task[t].pc = "give"
    /\ ~task[t].ok
    /\ NoBlock(task[t].file)
    /\ write_queue.waiting = VEX_SERIAL_BUFFER_SIZE

\* C10: while a partial flush removes what the transport accepted, the bytes
\* removed so far are the oldest ones and the others of the w waiting bytes
\* stay at the head in their order; when it ends exactly k are gone.  A flush
\* the transport accepted in full leaves the queue empty.
C10_PartialFlushRemovesAccepted ==
  /\ [](flush.pc = "recv" =>
          LET gone == flush.sent - flush.ret IN
          /\ flush.sent < flush.waiting
          /\ deq = flush.deq0 + gone
          /\ IsPrefix(SubSeq(flush.before, gone + 1, flush.waiting), Contents))
  /\ [][(flush.pc = "reset" /\ flush'.pc = "idle") => write_queue'.waiting = 0]_vars

\* A flush of three or more waiting bytes of which the transport accepted
\* some, leaving at least two, has removed the accepted ones.
C10_Witness ==
  /\ flush.pc = "recv"
  /\ flush.ret = 0
  /\ flush.sent >= 1
  /\ flush.waiting - flush.sent >= 2
  /\ deq = flush.deq0 + flush.sent

C12_WriteReturnsLenOrZero ==
  \A t \in Tasks :
    LET me   == task[t]
        sent == CallBytes(me.call)
    IN (me.pc = "idle" /\ me.call # 0) =>
         /\ me.ret \in {0, Len(me.buf)}
         /\ me.exit \in {163, 174, 184, 186, 199, 201}
         /\ me.exit = 163 => (me.ret = Len(me.buf) /\ sent = <<>>
                                /\ ~IsGuaranteed(me.file.stream_id))
         /\ me.exit \in {186, 201} => (me.ret = Len(me.buf) /\ sent = Expected(me))
         /\ me.exit = 174 => (me.ret = 0 /\ errno[t] = EACCES /\ sent = <<>>)
         /\ me.exit \in {184, 199} =>
              (me.ret = 0 /\ errno[t] = EIO /\ Len(sent) < Len(Expected(me)))
         /\ (me.cobs /\ me.exit # 163) => me.ret # Len(cobs_buf(me.buf, me.file))

\* C12 witness: one task has returned 0 with EACCES, another 0 with EIO.
C12_Witness ==
  \E t, u \in Tasks :
    /\ task[t].pc = "idle" /\ task[t].exit = 174 /\ task[t].ret = 0 /\ errno[t] = EACCES
    /\ task[u].pc = "idle" /\ task[u].exit = 184 /\ task[u].ret = 0 /\ errno[u] = EIO

\* C13: a read with len >= 1 that has returned gave back n with
\* 1 <= n <= len, and the caller's buffer holds the n inbound bytes that
\* followed the ones consumed before it, in arrival order; no stored byte
\* before the last is a newline, and the read ended because the last byte
\* is a newline, or n = len, or the source had no data after at least one
\* byte.  With nothing read, a turn of the loop that finds no data leaves
\* the read where it is.
C13_ReadReturnsNextBytes ==
  /\ [](\A t \in Tasks :
          LET me == reader[t] IN
          (me.pc = "idle" /\ me.call # 0 /\ me.len >= 1) =>
            /\ 1 <= me.ret /\ me.ret <= me.len
            /\ Len(me.stored) = me.ret
            /\ me.start + me.ret <= Len(arrived)
            /\ me.stored = SubSeq(arrived, me.start + 1, me.start + me.ret)
            /\ \A i \in 1..(me.ret - 1) : me.stored[i] # 10
            /\ me.stop \in {134, 139, 148}
            /\ me.stop = 148 <=> me.stored[me.ret] = 10
            /\ me.stop = 134 => me.ret = me.len
            /\ me.stop = 139 => me.ret < me.len)
  /\ [][\A t \in Tasks :
          /\ (reader[t].pc = "loop" /\ reader[t].read = 0 /\ reader[t].len >= 1
                /\ inp = <<>>) => reader'[t] = reader[t]
          /\ (reader[t].stop # 139 /\ reader'[t].stop = 139)
                => (inp = <<>> /\ reader[t].read >= 1)]_vars

\* C13 witness: a read of len 2 has returned 1 byte, not a newline, because
\* the source had no more data.
C13_Witness ==
  \E t \in Tasks :
    /\ reader[t].pc = "idle"
    /\ reader[t].len = 2
    /\ reader[t].ret = 1
    /\ reader[t].stop = 139
    /\ reader[t].stored = <<65>>

\* The calls in the order in which inp_buffer_read served them.
TakenCalls == [i \in 1..Len(taken) |-> taken[i].call]

\* C14: at most one ser_read_r call is between its mutex_take and its
\* mutex_give, so the bytes one call consumed are consecutive bytes of the
\* inbound stream; a reader waits for read_mtx only and a writer for
\* write_mtx only.
C14_ReadersSerialized ==
  /\ Cardinality({t \in Tasks : reader[t].pc \in {"loop", "give"}}) <= 1
  /\ \A t \in Tasks : reader[t].pc \in {"loop", "give"} => read_mtx = t
  /\ \A i, j, k \in 1..Len(taken) :
       (i < j /\ j < k /\ TakenCalls[i] = TakenCalls[k]) => TakenCalls[j] = TakenCalls[i]
  /\ [i \in 1..Len(taken) |-> taken[i].byte] = SubSeq(arrived, 1, Len(taken))
  /\ \A t \in Tasks :
       /\ (reader[t].pc = "take" /\ read_mtx = 0) => ENABLED ser_read_r_take(t)
       /\ reader[t].pc = "loop" => ENABLED ser_read_r_loop(t)
       /\ (task[t].pc = "take" /\ write_mtx = 0) => ENABLED ser_write_r_take(t)
       /\ (task[t].pc = "push" /\ ~queue_full(write_queue)) => ENABLED ser_output_write(t)

\* C14 witness: one read has consumed a byte and is still in its loop while
\* the other task's read waits for the mutex.
C14_Witness ==
  \E t, u \in Tasks :
    /\ reader[t].pc = "loop"
    /\ reader[t].read = 1
    /\ reader[u].pc = "take"
    /\ read_mtx = t

\* A name of at most 4 characters as a 4-byte tag, zero filled.
TagOfName(name) == name \o [i \in 1..(4 - Len(name)) |-> 0]

\* C15 as stated: ser_open_r maps "" to the standard-output handle and
\* "sout", "sin", "serr" (after one leading separator is dropped) to the
\* standard handles, creating nothing; a name of more than 4 characters
\* fails with ENAMETOOLONG and creates nothing; every other name creates
\* one new handle whose tag is the name.
C15_OpenMapsPathToHandle ==
  [][\A path \in OpenPaths :
       ser_open_r(path) =>
         LET name == IF path # <<>> /\ path[1] = 47 THEN SubSeq(path, 2, Len(path)) ELSE path
         IN  IF path = <<>>
             THEN open_ret'.fd = STDOUT_FILENO /\ files' = files
             ELSE IF name = <<115, 111, 117, 116>>
             THEN open_ret'.fd = STDOUT_FILENO /\ files' = files
             ELSE IF name = <<115, 105, 110>>
             THEN open_ret'.fd = STDIN_FILENO /\ files' = files
             ELSE IF name = <<115, 101, 114, 114>>
             THEN open_ret'.fd = STDERR_FILENO /\ files' = files
             ELSE IF Len(name) > 4
             THEN open_ret'.fd = -1 /\ open_ret'.errno = ENAMETOOLONG /\ files' = files
             ELSE /\ open_ret'.fd \notin DOMAIN files
                  /\ DOMAIN files' = (DOMAIN files) \cup {open_ret'.fd}
                  /\ \A fd \in DOMAIN files : files'[fd] = files[fd]
                  /\ StreamBytes(files'[open_ret'.fd].stream_id) = TagOfName(name)]_vars

\* C16: with framing enabled, among the bytes a write call has queued only
\* the last byte of its block is zero: while the block is being queued no
\* zero has been queued, and once the call has succeeded its bytes end in
\* exactly one zero.
C16_FrameZeroOnlyAtEnd ==
  \A t \in Tasks :
    LET me   == task[t]
        sent == CallBytes(me.call)
    IN  (me.call # 0 /\ me.cobs) =>
          /\ \A i \in 1..Len(sent) :
               sent[i] = 0 => (i = Len(sent) /\ me.pc \in {"give", "idle"} /\ me.ok)
          /\ (me.pc = "idle" /\ me.exit = 186) =>
               (Len(sent) > Len(me.buf) + 4 /\ sent[Len(sent)] = 0)

\* C16 witness: a framed write of a payload that holds a zero byte has
\* succeeded.
C16_Witness ==
  \E t \in Tasks :
    /\ task[t].pc = "idle"
    /\ task[t].exit = 186
    /\ task[t].buf = <<0, 9>>
    /\ Len(CallBytes(task[t].call)) = 8

\* C17: a step changes enabled_streams_set only if it is serctl with
\* ACTIVATE or DEACTIVATE, and the framing bit only if it is serctl with
\* ENABLE_COBS or DISABLE_COBS; so reads, writes, flushes, opens, BLKWRITE,
\* NOBLKWRITE and unknown verbs leave both as they are.  An unknown verb
\* returns -1 and every known verb returns 0.
C17_PolicyChangedOnlyByItsVerbs ==
  [][/\ enabled_streams_set' # enabled_streams_set =>
          \E action \in {SERCTL_ACTIVATE, SERCTL_DEACTIVATE}, parameter \in CtlTags :
            serctl(STDOUT_FILENO, action, parameter)
     /\ ser_driver_runtime_config' # ser_driver_runtime_config =>
          \E action \in {SERCTL_ENABLE_COBS, SERCTL_DISABLE_COBS} :
            serctl(STDOUT_FILENO, action, 0)
     /\ \A action \in UnknownActions :
          serctl(STDOUT_FILENO, action, 0) =>
            /\ ctl_ret' = -1
            /\ enabled_streams_set' = enabled_streams_set
            /\ ser_driver_runtime_config' = ser_driver_runtime_config
            /\ files' = files
     /\ \A action \in {SERCTL_ACTIVATE, SERCTL_DEACTIVATE}, parameter \in CtlTags :
          serctl(STDOUT_FILENO, action, parameter) => ctl_ret' = 0
     /\ \A action \in {SERCTL_BLKWRITE, SERCTL_NOBLKWRITE,
                        SERCTL_ENABLE_COBS, SERCTL_DISABLE_COBS} :
          serctl(STDOUT_FILENO, action, 0) =>
            /\ ctl_ret' = 0
            /\ enabled_streams_set' = enabled_streams_set]_vars

\* C17 witness: framing was disabled, an unframed write has succeeded, and
\* the last verb, an unknown one, returned -1 with framing still disabled
\* and the enabled set as initialised.
C17_Witness ==
  /\ ctl_ret = -1
  /\ ser_driver_runtime_config = 0
  /\ task[1].pc = "idle"
  /\ task[1].exit = 201
  /\ enabled_streams_set = {STDOUT_STREAM_ID}

\* C18: a write that finds the write mutex held gives up at once, with
\* EACCES, 0 bytes and nothing queued, exactly when framing is enabled and
\* its handle is non-blocking; a framed write on a blocking handle and
\* every unframed write can do nothing but wait until the mutex is free,
\* whatever the flag.  Without framing the flag acts only at the queue: on
\* a full queue the non-blocking write is refused and the blocking one
\* waits.
C18_LockTimeoutFollowsFraming ==
  /\ [](\A t \in Tasks :
          /\ (task[t].pc = "take" /\ write_mtx # 0) =>
               (ENABLED ser_write_r_take(t)
                  <=> (task[t].cobs /\ NoBlock(task[t].file)))
          /\ (task[t].pc = "idle" /\ task[t].exit = 174) =>
               (task[t].cobs /\ NoBlock(task[t].file))
          /\ (task[t].pc = "push" /\ ~task[t].cobs /\ queue_full(write_queue)) =>
               (ENABLED ser_output_write(t) <=> NoBlock(task[t].file)))
  /\ [][\A t \in Tasks :
          (task[t].pc = "take" /\ task'[t] # task[t]) =>
            IF write_mtx # 0
            THEN /\ task'[t].pc = "idle"
                 /\ task'[t].ret = 0
                 /\ errno'[t] = EACCES
                 /\ enq' = enq
                 /\ write_queue' = write_queue
                 /\ write_mtx' = write_mtx
            ELSE /\ write_mtx' = t
                 /\ task'[t].pc \in {"push", "give"}]_vars

\* C18 witness: without framing, a write on a non-blocking handle waits for
\* the mutex another task holds.
C18_Witness ==
  \E t, u \in Tasks :
    /\ t # u
    /\ task[t].pc = "take"
    /\ ~task[t].cobs
    /\ NoBlock(task[t].file)
    /\ write_mtx = u

\* C19: no guaranteed-delivery stream is ever in enabled_streams_set:
\* initialisation puts only the standard-output stream there, and ACTIVATE
\* or DEACTIVATE naming a guaranteed-delivery stream returns 0 and leaves
\* the set as it is.
C19_GuaranteedNeverInEnabledSet ==
  /\ [](/\ \A id \in enabled_streams_set : ~IsGuaranteed(id)
        /\ ops = 0 => enabled_streams_set = {STDOUT_STREAM_ID})
  /\ [][\A action \in {SERCTL_ACTIVATE, SERCTL_DEACTIVATE}, parameter \in CtlTags :
          (IsGuaranteed(parameter) /\ serctl(STDOUT_FILENO, action, parameter)) =>
            (ctl_ret' = 0 /\ enabled_streams_set' = enabled_streams_set)]_vars

\* C19 witness: ACTIVATE and then DEACTIVATE have named the standard-error
\* stream, the last of them returned 0, and the set is as initialised.
C19_Witness ==
  /\ verbs[STDERR_STREAM_ID].activated
  /\ verbs[STDERR_STREAM_ID].last = SERCTL_DEACTIVATE
  /\ ctl_ret = 0
  /\ enabled_streams_set = {STDOUT_STREAM_ID}

\* C20 as stated: a write call that has returned 0 with EACCES or EIO has
\* queued no byte.
C20_FailedWriteQueuedNothing ==
  \A t \in Tasks :
    (task[t].pc = "idle" /\ task[t].exit \in {174, 184, 199}) =>
      CallBytes(task[t].call) = <<>>

\* C20 amended: a write call that has returned 0 with EACCES has queued no
\* byte; one that has returned 0 with EIO has queued a proper prefix of its
\* block, which stays queued; a call still queuing has queued a prefix of
\* its block.  So with framing the bytes queued are complete frames,
\* truncated frames of failed non-blocking writes, and the frame in
\* progress.
C20_FailedWriteLeavesPrefix ==
  \A t \in Tasks :
    LET me   == task[t]
        sent == CallBytes(me.call)
    IN  /\ (me.pc = "idle" /\ me.exit = 174) => sent = <<>>
        /\ (me.pc = "idle" /\ me.exit \in {184, 199}) =>
             (IsPrefix(sent, Expected(me)) /\ Len(sent) < Len(Expected(me)))
        /\ me.pc \in {"push", "give"} =>
             (IsPrefix(sent, Expected(me)) /\ write_mtx = t)
        /\ (me.pc = "give" /\ ~me.ok) => Len(sent) < Len(Expected(me))

\* C20 witness: a framed write has returned 0 with EIO after queuing some
\* bytes, and bytes of a later call were queued behind them.
C20_Witness ==
  \E t \in Tasks :
    /\ task[t].pc = "idle"
    /\ task[t].exit = 184
    /\ errno[t] = EIO
    /\ CallBytes(task[t].call) # <<>>
    /\ enq[Len(enq)].call > task[t].call

(***************************************************************************)
(* Claims C21-C24.                                                         *)
(***************************************************************************)
\* C21 as stated: with the flush running beside a writer no queued byte is
\* lost: the flush takes out of the queue only bytes the transport has
\* accepted, so the number of bytes removed never exceeds the number
\* accepted, and every byte appended is still queued or was removed.
C21_FlushRemovesOnlySentBytes ==
  /\ deq <= Len(wire)
  /\ Len(enq) = deq + queue_get_waiting(write_queue)

\* C22 as stated: a read with a caller buffer of len bytes writes only to
\* indices 0 .. len-1 of it, the terminating zero included, also when len
\* bytes were read without a newline and when len = 0.
C22_ReadStaysInsideBuffer ==
  \A t \in Tasks :
    LET me == reader[t] IN
    me.call # 0 =>
      /\ Len(me.stored) <= me.len
      /\ me.term < me.len

\* C24: a call that took its mutex gives it back before it returns, on
\* every path: a task outside ser_write_r, or still waiting at its
\* mutex_take, does not hold write_mtx, and likewise for ser_read_r and
\* read_mtx; with no write call in progress write_mtx is free, with no read
\* call in progress read_mtx is free; no task holds both.
C24_LocksReleasedOnReturn ==
  /\ \A t \in Tasks :
       /\ task[t].pc \in {"idle", "take"} => write_mtx # t
       /\ reader[t].pc \in {"idle", "take", "term"} => read_mtx # t
       /\ ~(write_mtx = t /\ read_mtx = t)
  /\ (\A t \in Tasks : task[t].pc = "idle") => write_mtx = 0
  /\ (\A t \in Tasks : reader[t].pc = "idle") => read_mtx = 0

\* C24 witness: a write has returned 0 with EIO and write_mtx is free, while
\* a read holds read_mtx in its loop.
C24_Witness ==
  /\ task[1].pc = "idle"
  /\ task[1].exit = 184
  /\ write_mtx = 0
  /\ reader[2].pc = "loop"
  /\ read_mtx = 2

====
